---- MODULE Spec2Model ----
(***************************************************************************)
(* ForwardInstancedPipeline (src/render/passes/forward_instanced/mod.rs):  *)
(* the pipeline object's fields, the per-frame instance batching           *)
(* (create_instance_buffer_infos) and the draw loop of render, as a state  *)
(* machine over an entity store that the application mutates between      *)
(* calls.                                                                   *)
(***************************************************************************)
EXTENDS Integers, Sequences, FiniteSets, TLC

VARIABLES
    world,                  \* the entity store, in its iteration order
    mesh_storage,           \* world.resources' AssetStorage<Mesh> as the last render found it
    pipeline,               \* Option<wgpu::RenderPipeline>
    local_bind_group,       \* Option<wgpu::BindGroup>
    instance_buffer_infos,  \* Option<Vec<InstanceBufferInfo>>
    buffers_created,        \* number of buffers the device has created so far
    trace,                  \* device buffer calls and pass commands of the last call, in order
    last_call,              \* the operation that ran last
    in_succession,          \* the last call was a render that directly followed a render
    outcome                 \* "ok", or "panic" once a call ended in a failed unwrap

vars == <<world, mesh_storage, pipeline, local_bind_group, instance_buffer_infos,
          buffers_created, trace, last_call, in_succession, outcome>>

----------------------------------------------------------------------------
(* Bounds *)

MaxEntities == 2
MaxBuffers == 4

(* Option<T>: None is the empty sequence, Some(x) the one-element sequence. *)
None == <<>>
Some(x) == <<x>>
IsSome(o) == Len(o) = 1
Unwrap(o) == o[1]

----------------------------------------------------------------------------
(* Component values *)

MeshIds == {7, 9}
Colors == {<<1, 0, 0, 1>>, <<0, 1, 0, 1>>}
Translations == {<<0, 0, 0>>, <<1, 2, 3>>}
UnitScale == <<1, 1, 1>>
IdentityRotation == <<0, 0, 0, 1>>

Materials == {[color |-> c] : c \in Colors}
LocalToWorlds ==
    {[scale |-> UnitScale, rotation |-> IdentityRotation, translation |-> t] :
        t \in Translations}

Entities ==
    [material : Materials, transform : LocalToWorlds, mesh : MeshIds,
     instanced : BOOLEAN]

(* Number of indices of each mesh asset. *)
MeshIndexCount(mesh_id) == IF mesh_id = 7 THEN 36 ELSE 6

(* `as u32` of a count: the counts of a bounded scene are far below 2^32,
   where the cast changes nothing. *)
AsU32(n) == n

----------------------------------------------------------------------------
(* create_instance_buffer_infos *)

UniformSize == 28

(* The query over (Material, LocalToWorld, Handle<Mesh>, Instanced): every
   entity of the model carries the first three, the tag decides. *)
Matches(e) == e.instanced

(* A query that leaves the Instanced tag out. *)
QueryIterUntagged(w) == w

QueryIter(w) == SelectSeq(w, Matches)

EmptyGroups == [k \in {} |-> <<>>]

(* The grouping loop inserting a new vector also for a mesh id it holds. *)
MeshGroupsPushOverwrite(groups, e) ==
    LET pair == [material |-> e.material, transform |-> e.transform] IN
    [k \in DOMAIN groups \cup {e.mesh} |->
        IF k = e.mesh THEN <<pair>> ELSE groups[k]]

(* The grouping loop putting a later entity in front of the earlier ones. *)
MeshGroupsPushFront(groups, e) ==
    LET pair == [material |-> e.material, transform |-> e.transform] IN
    IF e.mesh \in DOMAIN groups
    THEN [groups EXCEPT ![e.mesh] = <<pair>> \o @]
    ELSE [k \in DOMAIN groups \cup {e.mesh} |->
            IF k = e.mesh THEN <<pair>> ELSE groups[k]]

(* One turn of the grouping loop. *)
MeshGroupsPush(groups, e) ==
    LET pair == [material |-> e.material, transform |-> e.transform] IN
    IF e.mesh \in DOMAIN groups
    THEN [groups EXCEPT ![e.mesh] = Append(@, pair)]
    ELSE [k \in DOMAIN groups \cup {e.mesh} |->
            IF k = e.mesh THEN <<pair>> ELSE groups[k]]

RECURSIVE MeshGroupsFrom(_, _)
MeshGroupsFrom(groups, ents) ==
    IF ents = <<>> THEN groups
    ELSE MeshGroupsFrom(MeshGroupsPush(groups, Head(ents)), Tail(ents))

MeshGroups(w) == MeshGroupsFrom(EmptyGroups, QueryIter(w))

(* The orders in which a HashMap over these keys may be iterated. *)
KeyOrders(keys) ==
    {o \in [1..Cardinality(keys) -> keys] :
        \A i, j \in 1..Cardinality(keys) : i # j => o[i] # o[j]}

HashOrders(w) == KeyOrders(DOMAIN MeshGroups(w))

ToScaleRotationTranslation(transform) ==
    <<transform.scale, transform.rotation, transform.translation>>

GetColor(material) == material.color

SimpleMaterialUniforms(pair) ==
    [position |-> ToScaleRotationTranslation(pair.transform)[3],
     color |-> GetColor(pair.material)]

(* A slot of a mapped buffer that nothing was copied into. *)
Unwritten == [position |-> <<>>, color |-> <<>>]

(* chunks_exact_mut(uniform_size) of a mapped region of `size` bytes. *)
ChunksExact(size) == size \div UniformSize

(* drain(..).zip(chunks): slot i receives the i-th pair, while both last. *)
FillSlots(pairs, size) ==
    [i \in 1..ChunksExact(size) |->
        IF i <= Len(pairs) THEN SimpleMaterialUniforms(pairs[i]) ELSE Unwritten]

BufferSize(pairs) == Len(pairs) * UniformSize

(* A device that numbers the buffers of every frame from 1 again. *)
NewBufferIdRestarting(created, k) == k

(* A batching run that creates one buffer and hands it to every batch. *)
NewBufferIdShared(created, k) == created + 1

(* The device hands out a new buffer on every create call: the k-th call after
   `created` earlier ones yields buffer created + k. *)
NewBufferId(created, k) == created + k

InstanceBufferInfo(mesh_id, pairs, id) ==
    [mesh_id |-> mesh_id,
     buffer |-> [id |-> id, size |-> BufferSize(pairs),
                 data |-> FillSlots(pairs, BufferSize(pairs))],
     instance_count |-> Len(pairs)]

CreateInstanceBufferInfos(w, order, created) ==
    IF Len(QueryIter(w)) = 0 THEN <<>>
    ELSE [k \in 1..Len(order) |->
            InstanceBufferInfo(order[k], MeshGroups(w)[order[k]],
                               NewBufferId(created, k))]

----------------------------------------------------------------------------
(* Events *)

Event(op, a, b) == [op |-> op, a |-> a, b |-> b]

RECURSIVE Flatten(_)
Flatten(ss) == IF ss = <<>> THEN <<>> ELSE Head(ss) \o Flatten(Tail(ss))

(* create_buffer_mapped .. finish, once per group, in the order of the loop. *)
BufferEvents(infos) ==
    Flatten([k \in 1..Len(infos) |->
        <<Event("create_buffer_mapped", infos[k].buffer.id, infos[k].buffer.size),
          Event("finish", infos[k].buffer.id, 0)>>])

(* A draw that covers one instance whatever the batch holds. *)
DrawBatchOneInstance(info, storage) ==
    IF info.mesh_id \in storage
    THEN <<Event("setup_buffers", info.mesh_id, 0),
           Event("set_index_buffer", info.mesh_id, 0),
           Event("set_vertex_buffers", 0, info.mesh_id),
           Event("set_vertex_buffers", 1, info.buffer.id),
           Event("draw_indexed", AsU32(MeshIndexCount(info.mesh_id)), 1)>>
    ELSE <<>>

(* The body of render's loop for one batch. *)
DrawBatch(info, storage) ==
    IF info.mesh_id \in storage
    THEN <<Event("setup_buffers", info.mesh_id, 0),
           Event("set_index_buffer", info.mesh_id, 0),
           Event("set_vertex_buffers", 0, info.mesh_id),
           Event("set_vertex_buffers", 1, info.buffer.id),
           Event("draw_indexed", AsU32(MeshIndexCount(info.mesh_id)),
                 AsU32(info.instance_count))>>
    ELSE <<>>

DrawLoop(infos, storage) ==
    Flatten([k \in 1..Len(infos) |-> DrawBatch(infos[k], storage)])

----------------------------------------------------------------------------
(* Operations *)

Running == outcome = "ok"

(* The scenes of at most MaxEntities entities. *)
Worlds == UNION {[1..n -> Entities] : n \in 0..MaxEntities}

(* The fields ForwardInstancedPipeline::new sets, and a device and a pass
   nothing was asked of yet. *)
New ==
    /\ mesh_storage = None
    /\ pipeline = None
    /\ local_bind_group = None
    /\ instance_buffer_infos = None
    /\ buffers_created = 0
    /\ trace = <<>>
    /\ last_call = "new"
    /\ in_succession = FALSE
    /\ outcome = "ok"

(* A pipeline constructed for a scene that stays as it is. *)
Init ==
    /\ world \in Worlds
    /\ New

(* A pipeline constructed for a scene still empty. *)
InitScene ==
    /\ world = <<>>
    /\ New

(* An initialize that leaves local_bind_group as it was. *)
InitializeNoBindGroup(forward, light, order) ==
    /\ Running
    /\ last_call' = "initialize"
    /\ in_succession' = FALSE
    /\ UNCHANGED <<world, mesh_storage, local_bind_group>>
    /\ IF ~(forward /\ light)
       THEN /\ outcome' = "panic"
            /\ trace' = <<>>
            /\ UNCHANGED <<pipeline, instance_buffer_infos, buffers_created>>
       ELSE /\ buffers_created + Len(order) <= MaxBuffers
            /\ pipeline' = Some("RenderPipeline")
            /\ instance_buffer_infos' =
                   Some(CreateInstanceBufferInfos(world, order, buffers_created))
            /\ buffers_created' = buffers_created + Len(order)
            /\ trace' = BufferEvents(Unwrap(instance_buffer_infos'))
            /\ outcome' = "ok"

(* initialize; forward, light: whether render_graph holds the named uniform
   buffers. The unwraps of the two lookups come before any field is set. *)
Initialize(forward, light, order) ==
    /\ Running
    /\ last_call' = "initialize"
    /\ in_succession' = FALSE
    /\ UNCHANGED <<world, mesh_storage>>
    /\ IF ~(forward /\ light)
       THEN /\ outcome' = "panic"
            /\ trace' = <<>>
            /\ UNCHANGED <<pipeline, local_bind_group, instance_buffer_infos,
                           buffers_created>>
       ELSE /\ buffers_created + Len(order) <= MaxBuffers
            /\ local_bind_group' = Some("BindGroup")
            /\ pipeline' = Some("RenderPipeline")
            /\ instance_buffer_infos' =
                   Some(CreateInstanceBufferInfos(world, order, buffers_created))
            /\ buffers_created' = buffers_created + Len(order)
            /\ trace' = BufferEvents(Unwrap(instance_buffer_infos'))
            /\ outcome' = "ok"

(* A render that keeps the batch set it finds. *)
RenderBatchesKept(order) ==
    IF IsSome(instance_buffer_infos)
    THEN Unwrap(instance_buffer_infos)
    ELSE CreateInstanceBufferInfos(world, order, buffers_created)

(* The batch set render assigns first of all. *)
RenderBatches(order) == CreateInstanceBufferInfos(world, order, buffers_created)

BindShared == <<Event("set_bind_group", 0, 0)>>

(* A render that looks the mesh storage up before it binds. *)
RenderTraceStorageFirst(infos, storage) ==
    IF ~IsSome(local_bind_group) \/ ~IsSome(storage) THEN BufferEvents(infos)
    ELSE BufferEvents(infos) \o BindShared \o DrawLoop(infos, Unwrap(storage))

(* A render that binds the shared group after its draws. *)
RenderTraceBindLast(infos, storage) ==
    IF ~IsSome(local_bind_group) THEN BufferEvents(infos)
    ELSE IF ~IsSome(storage) THEN BufferEvents(infos) \o BindShared
    ELSE BufferEvents(infos) \o DrawLoop(infos, Unwrap(storage)) \o BindShared

(* What a render call asks of the device and records on the pass, up to the
   unwrap that fails, if one does. *)
RenderTrace(infos, storage) ==
    IF ~IsSome(local_bind_group) THEN BufferEvents(infos)
    ELSE IF ~IsSome(storage) THEN BufferEvents(infos) \o BindShared
    ELSE BufferEvents(infos) \o BindShared \o DrawLoop(infos, Unwrap(storage))

RenderOutcome(storage) ==
    IF IsSome(local_bind_group) /\ IsSome(storage) THEN "ok" ELSE "panic"

(* render; storage: the AssetStorage<Mesh> resource of the world, if any. *)
Render(storage, order) ==
    /\ Running
    /\ buffers_created + Len(order) <= MaxBuffers
    /\ last_call' = "render"
    /\ in_succession' = (last_call = "render")
    /\ mesh_storage' = storage
    /\ instance_buffer_infos' = Some(RenderBatches(order))
    /\ buffers_created' = buffers_created + Len(order)
    /\ trace' = RenderTrace(RenderBatches(order), storage)
    /\ outcome' = RenderOutcome(storage)
    /\ UNCHANGED <<world, pipeline, local_bind_group>>

(* resize does nothing. *)
Resize ==
    /\ Running
    /\ UNCHANGED vars

(* get_pipeline returns a reference, or fails on the unwrap. *)
GetPipeline ==
    /\ Running
    /\ IF IsSome(pipeline)
       THEN UNCHANGED vars
       ELSE /\ last_call' = "get_pipeline"
            /\ in_succession' = FALSE
            /\ outcome' = "panic"
            /\ UNCHANGED <<world, mesh_storage, pipeline, local_bind_group,
                           instance_buffer_infos, buffers_created, trace>>

(* The application changes the scene between calls. *)
SceneStep(w) ==
    /\ Running
    /\ world' = w
    /\ last_call' = "scene"
    /\ in_succession' = FALSE
    /\ UNCHANGED <<mesh_storage, pipeline, local_bind_group,
                   instance_buffer_infos, buffers_created, trace, outcome>>

RemoveAt(s, i) == SubSeq(s, 1, i - 1) \o SubSeq(s, i + 1, Len(s))

AddEntity(e) ==
    /\ Len(world) < MaxEntities
    /\ SceneStep(Append(world, e))

RemoveEntity(i) == SceneStep(RemoveAt(world, i))

SetInstanced(i, tag) ==
    /\ world[i].instanced # tag
    /\ SceneStep([world EXCEPT ![i].instanced = tag])

SetTransform(i, t) ==
    /\ world[i].transform # t
    /\ SceneStep([world EXCEPT ![i].transform = t])

SetMesh(i, mesh_id) ==
    /\ world[i].mesh # mesh_id
    /\ SceneStep([world EXCEPT ![i].mesh = mesh_id])

MeshStorages == {None} \cup {Some(s) : s \in SUBSET MeshIds}

PipelineCall(storages) ==
    \/ \E forward, light \in BOOLEAN, order \in HashOrders(world) :
          Initialize(forward, light, order)
    \/ \E storage \in storages, order \in HashOrders(world) :
          Render(storage, order)
    \/ Resize
    \/ GetPipeline

(* The entities a scene step spawns. *)
SpawnMaterial == [color |-> <<1, 0, 0, 1>>]
Spawned == {e \in Entities : e.material = SpawnMaterial}

SceneChange ==
    \/ \E e \in Spawned : AddEntity(e)
    \/ \E i \in 1..Len(world) : RemoveEntity(i)
    \/ \E i \in 1..Len(world), tag \in BOOLEAN : SetInstanced(i, tag)
    \/ \E i \in 1..Len(world), t \in LocalToWorlds : SetTransform(i, t)
    \/ \E i \in 1..Len(world), mesh_id \in MeshIds : SetMesh(i, mesh_id)

Next == PipelineCall(MeshStorages)

(* Every mesh of the scene is loaded. *)
LoadedStorages == {Some(MeshIds)}

NextScene == PipelineCall(LoadedStorages) \/ SceneChange

Spec == Init /\ [][Next]_vars

SpecScene == InitScene /\ [][NextScene]_vars

----------------------------------------------------------------------------
(* What the claims speak of, stated over the scene itself. *)

Infos == Unwrap(instance_buffer_infos)

(* The entities that carry the tag and reference mesh_id, in store order. *)
InstancedOn(w, mesh_id) ==
    SelectSeq(w, LAMBDA e : e.instanced /\ e.mesh = mesh_id)

InstancedCount(w) == Cardinality({i \in 1..Len(w) : w[i].instanced})

MeshesPresent(w) == {w[i].mesh : i \in {j \in 1..Len(w) : w[j].instanced}}

RecordOf(e) == [position |-> e.transform.translation, color |-> e.material.color]

RecordsOn(w, mesh_id) ==
    [i \in 1..Len(InstancedOn(w, mesh_id)) |-> RecordOf(InstancedOn(w, mesh_id)[i])]

RECURSIVE SumCounts(_)
SumCounts(infos) ==
    IF infos = <<>> THEN 0 ELSE Head(infos).instance_count + SumCounts(Tail(infos))

BufferIds(infos) == {infos[k].buffer.id : k \in 1..Len(infos)}

DistinctMeshIds(infos) ==
    \A j, k \in 1..Len(infos) : j # k => infos[j].mesh_id # infos[k].mesh_id

DistinctBuffers(infos) ==
    \A j, k \in 1..Len(infos) : j # k => infos[j].buffer.id # infos[k].buffer.id

TraceOf(ops) == SelectSeq(trace, LAMBDA ev : ev.op \in ops)

Draws == TraceOf({"draw_indexed"})
Creations == TraceOf({"create_buffer_mapped"})
PassCommands ==
    TraceOf({"set_bind_group", "set_index_buffer", "set_vertex_buffers", "draw_indexed"})

CreatedInCall == {Creations[k].a : k \in 1..Len(Creations)}

(* The batch set is the grouping of the scene w by mesh id. *)
BatchesOf(infos, w) ==
    /\ DistinctMeshIds(infos)
    /\ {infos[k].mesh_id : k \in 1..Len(infos)} = MeshesPresent(w)
    /\ \A k \in 1..Len(infos) :
          /\ infos[k].instance_count = Len(InstancedOn(w, infos[k].mesh_id))
          /\ infos[k].buffer.data = RecordsOn(w, infos[k].mesh_id)

----------------------------------------------------------------------------
(* C1: create_instance_buffer_infos returns one InstanceBufferInfo per mesh id
   that an instanced entity references, with pairwise distinct mesh ids; each
   instance_count is the number of instanced entities on that mesh id, and the
   counts sum to the number of instanced entities. *)
C1_OneBatchPerMesh ==
    IsSome(instance_buffer_infos) =>
        /\ Len(Infos) = Cardinality(MeshesPresent(world))
        /\ DistinctMeshIds(Infos)
        /\ \A k \in 1..Len(Infos) :
              /\ Infos[k].mesh_id \in MeshesPresent(world)
              /\ Infos[k].instance_count = Len(InstancedOn(world, Infos[k].mesh_id))
        /\ SumCounts(Infos) = InstancedCount(world)

(* Two instanced entities that share a mesh: one batch of count 2. *)
C1_Witness ==
    /\ IsSome(instance_buffer_infos)
    /\ Len(world) = 2
    /\ InstancedCount(world) = 2
    /\ Len(Infos) = 1
    /\ Infos[1].instance_count = 2

(* The draw of batch k as the claim describes it. *)
DrawOf(info) ==
    Event("draw_indexed", MeshIndexCount(info.mesh_id),
          Len(InstancedOn(world, info.mesh_id)))

(* C2 as stated: every completed render draws once per batch, whatever the
   mesh storage holds. *)
C2_DrawPerBatch ==
    (last_call = "render" /\ outcome = "ok") =>
        Draws = [k \in 1..Len(Infos) |-> DrawOf(Infos[k])]

StoredBatches == SelectSeq(Infos, LAMBDA info : info.mesh_id \in Unwrap(mesh_storage))

(* C2, amended: a render that completes draws once per batch whose mesh id
   the mesh storage holds, in batch order, over the mesh's index range and the
   batch's instance count, with that batch's buffer bound at stream 1; a batch
   whose mesh id the storage does not hold is skipped. *)
C2_DrawPerStoredBatch ==
    (last_call = "render" /\ outcome = "ok") =>
        /\ Draws = [k \in 1..Len(StoredBatches) |-> DrawOf(StoredBatches[k])]
        /\ Len(Draws) = Cardinality(MeshesPresent(world) \cap Unwrap(mesh_storage))
        /\ \A i \in 1..Len(trace) :
              trace[i].op = "draw_indexed" =>
                  /\ i > 1
                  /\ trace[i - 1].op = "set_vertex_buffers"
                  /\ trace[i - 1].a = 1
                  /\ \E k \in 1..Len(Infos) :
                        /\ Infos[k].buffer.id = trace[i - 1].b
                        /\ trace[i] = DrawOf(Infos[k])

(* Two batches, of which the storage holds only the mesh of one. *)
C2_Witness ==
    /\ last_call = "render"
    /\ outcome = "ok"
    /\ Len(Infos) = 2
    /\ Len(Draws) = 1

(* C3: after a render the batch set is the grouping of the scene as it is at
   that render, and every buffer in it was created by that render: an entity
   without the tag is in no batch, and nothing of an earlier frame is left. *)
C3_BatchesFromSnapshot ==
    last_call = "render" =>
        /\ IsSome(instance_buffer_infos)
        /\ BatchesOf(Infos, world)
        /\ SumCounts(Infos) = InstancedCount(world)
        /\ BufferIds(Infos) = CreatedInCall

(* A render of a scene holding an entity without the tag beside an instanced
   one, after earlier frames created more buffers than this one. *)
C3_Witness ==
    /\ last_call = "render"
    /\ outcome = "ok"
    /\ Len(world) = 2
    /\ InstancedCount(world) = 1
    /\ Len(Infos) = 1
    /\ buffers_created >= 3

NoMatch == InstancedCount(world) = 0

(* C4: with no matching entity, a render after initialize records no draw,
   creates no buffer and leaves an empty batch set; it completes whenever the
   mesh storage resource is there. *)
C4_EmptyScene ==
    (last_call = "render" /\ IsSome(local_bind_group) /\ NoMatch) =>
        /\ Draws = <<>>
        /\ Creations = <<>>
        /\ instance_buffer_infos = Some(<<>>)
        /\ PassCommands = BindShared
        /\ (IsSome(mesh_storage) => outcome = "ok")

(* A completed render of a scene whose entities all lack the tag. *)
C4_Witness ==
    /\ last_call = "render"
    /\ IsSome(local_bind_group)
    /\ outcome = "ok"
    /\ Len(world) = 2
    /\ NoMatch

SameContent(a, b) ==
    /\ {a[k].mesh_id : k \in 1..Len(a)} = {b[k].mesh_id : k \in 1..Len(b)}
    /\ Len(a) = Len(b)
    /\ \A j \in 1..Len(a), k \in 1..Len(b) :
          a[j].mesh_id = b[k].mesh_id =>
              /\ a[j].instance_count = b[k].instance_count
              /\ a[j].buffer.data = b[k].buffer.data

(* C5: a render that directly follows a render of the same scene yields a
   batch set of the same content (mesh ids, counts, record sequences), none of
   whose buffers is a buffer of the earlier set. *)
C5_RenderTwice ==
    [][(last_call = "render" /\ last_call' = "render" /\ world' = world) =>
          /\ SameContent(Infos, Unwrap(instance_buffer_infos'))
          /\ BufferIds(Infos) \cap BufferIds(Unwrap(instance_buffer_infos')) = {}]_vars

(* The second of two renders in succession, with a batch of two records. *)
C5_Witness ==
    /\ in_succession
    /\ Len(Infos) = 1
    /\ Infos[1].instance_count = 2

(* C6: the i-th record of a batch's buffer is {position: translation, color:
   material color} of the i-th instanced entity on that mesh id in store order;
   the buffer holds exactly these records, one slot each. *)
C6_RecordOrder ==
    IsSome(instance_buffer_infos) =>
        \A k \in 1..Len(Infos) :
            /\ Infos[k].buffer.data = RecordsOn(world, Infos[k].mesh_id)
            /\ Len(Infos[k].buffer.data) = Infos[k].instance_count
            /\ \A i \in 1..Len(Infos[k].buffer.data) :
                  Infos[k].buffer.data[i] # Unwritten

(* A batch of two records that differ, so that their order shows. *)
C6_Witness ==
    /\ IsSome(instance_buffer_infos)
    /\ \E k \in 1..Len(Infos) :
          /\ Len(Infos[k].buffer.data) = 2
          /\ Infos[k].buffer.data[1] # Infos[k].buffer.data[2]

(* C7: a render without a bind group fails and records no command on the
   pass; get_pipeline fails while pipeline is None; a completed initialize
   leaves pipeline, local_bind_group and instance_buffer_infos present, and a
   render after it fails on none of them. *)
C7_BeforeInitialize ==
    /\ (last_call = "render" /\ ~IsSome(local_bind_group)) =>
          (outcome = "panic" /\ PassCommands = <<>>)
    /\ (Running /\ ~IsSome(pipeline)) => ~ENABLED (GetPipeline /\ outcome' = "ok")
    /\ last_call = "get_pipeline" => (outcome = "panic" /\ ~IsSome(pipeline))
    /\ (last_call = "initialize" /\ outcome = "ok") =>
          /\ IsSome(pipeline)
          /\ IsSome(local_bind_group)
          /\ IsSome(instance_buffer_infos)
    /\ IsSome(pipeline) <=> IsSome(local_bind_group)
    /\ (last_call = "render" /\ IsSome(local_bind_group)) =>
          /\ IsSome(pipeline)
          /\ IsSome(instance_buffer_infos)
          /\ (outcome = "panic" => ~IsSome(mesh_storage))

(* A render before any initialize, of a scene with a batch to draw. *)
C7_Witness ==
    /\ last_call = "render"
    /\ ~IsSome(local_bind_group)
    /\ outcome = "panic"
    /\ Len(Infos) = 2

(* C8 as stated: a render that ends in a failure has changed nothing. *)
C8_FailedRenderNoEffect ==
    [][(last_call' = "render" /\ outcome' = "panic") =>
          /\ instance_buffer_infos' = instance_buffer_infos
          /\ buffers_created' = buffers_created
          /\ trace' = <<>>]_vars

(* C8, amended: a render that ends in a failure has recorded no draw and no
   per-batch binding: nothing at all if the bind group is absent, the shared
   bind alone if the mesh storage is. It has by then replaced the batch set by
   the grouping of the current scene and created one buffer per batch. *)
C8_FailedRenderDrawsNothing ==
    (last_call = "render" /\ outcome = "panic") =>
        /\ ~IsSome(local_bind_group) \/ ~IsSome(mesh_storage)
        /\ Draws = <<>>
        /\ PassCommands = IF IsSome(local_bind_group) THEN BindShared ELSE <<>>
        /\ IsSome(instance_buffer_infos)
        /\ BatchesOf(Infos, world)
        /\ BufferIds(Infos) = CreatedInCall
        /\ Len(Creations) = Len(Infos)

(* A render after initialize that fails on the absent mesh storage, with a
   batch it had built. *)
C8_Witness ==
    /\ last_call = "render"
    /\ outcome = "panic"
    /\ IsSome(local_bind_group)
    /\ Len(Infos) >= 1

(* C9: in the trace of a completed render the shared bind group is bound
   exactly once, at slot 0; every creation and finish of an instance buffer
   comes before it and every per-batch call and draw after it. *)
C9_BatchThenBindThenDraw ==
    (last_call = "render" /\ outcome = "ok") =>
        /\ Len(TraceOf({"set_bind_group"})) = 1
        /\ \A p \in 1..Len(trace) :
              trace[p].op = "set_bind_group" =>
                  /\ trace[p].a = 0
                  /\ \A i \in 1..Len(trace) :
                        /\ trace[i].op \in {"create_buffer_mapped", "finish"} => i < p
                        /\ trace[i].op \in {"setup_buffers", "set_index_buffer",
                                             "set_vertex_buffers", "draw_indexed"} => i > p
        /\ Len(Creations) = Len(Infos)
        /\ Len(TraceOf({"finish"})) = Len(Infos)

(* A completed render that created two buffers and drew two batches. *)
C9_Witness ==
    /\ last_call = "render"
    /\ outcome = "ok"
    /\ Len(Creations) = 2
    /\ Len(Draws) = 2

(* C10: whenever a call assigns a batch set, each batch holds a buffer of
   instance_count * size_of(SimpleMaterialUniforms) bytes that the device had
   not created before the call, no two batches hold the same buffer, and the
   device created as many buffers in the call as there are batches. *)
C10_FreshBufferPerBatch ==
    [][instance_buffer_infos' # instance_buffer_infos =>
          LET infos == Unwrap(instance_buffer_infos') IN
          /\ \A k \in 1..Len(infos) :
                /\ infos[k].buffer.size = infos[k].instance_count * UniformSize
                /\ infos[k].buffer.id \notin 1..buffers_created
                /\ infos[k].buffer.id \in 1..buffers_created'
          /\ DistinctBuffers(infos)
          /\ buffers_created' - buffers_created = Len(infos)]_vars

(* A second frame of two batches, after a first that created two buffers. *)
C10_Witness ==
    /\ IsSome(instance_buffer_infos)
    /\ Len(Infos) = 2
    /\ buffers_created = 4

====
